---- MODULE Spec2Model ----
(***************************************************************************)
(* Model of the challenge orchestration core of AutomationToolkit:         *)
(*   challenges/base_challenge.py  BaseChallenge.execute / reset           *)
(*   challenge_manager.py          ChallengeManager.run_challenge, ...     *)
(*   challenge_system.py           ChallengeSystem (orchestrator + events) *)
(* Caller threads invoke the control operations; every accepted start      *)
(* creates a worker thread whose position is kept in workers[w].pc.        *)
(* A worker yields between the blocking calls of the code (the hooks of a  *)
(* challenge, psutil's one-second sampling, the sleeps).                   *)
(***************************************************************************)
EXTENDS Integers, Sequences, FiniteSets, TLC

\* ---------------------------------------------------------------- bounds
\* number of worker threads the callers may create over one behaviour
MaxWorkers == 2
\* number of accepted pause/stop/reset calls over one behaviour
MaxOps == 1
\* number of threads over one behaviour in which the callers start a
\* thread only after the one before has ended
MaxRuns == 2
\* number of threads over one behaviour in which the callers pause, resume
\* and stop, or reset, one thread at a time
MaxControlRuns == 1
\* number of accepted reset_challenge calls over one behaviour of resets
MaxResets == 2
\* the retention bound N of the event bus that the specification speaks of
EventRetention == 3
\* number of listeners registered with add_event_listener
MaxListeners == 2
\* number of log entries appended beyond the capacity of the log
MaxOverflow == 5
\* largest count asked of get_recent_logs and get_challenge_logs
MaxCount == 2
\* largest max_attempts given to retry_with_backoff
MaxAttempts == 3
\* number of events emitted before and between reads of the event queue
MaxQueued == 4
\* number of steps get_steps() returns for level 1 (see TotalSteps for the
\* levels above it)
NumSteps == 2
\* registered levels are 1..NumLevels
NumLevels == 2

\* ------------------------------------------------------ program constants
\* challenge_manager.py:158  "Keep only last 1000 log entries"
LogCap == 1000

\* ------------------------------------------------------------- vocabulary
IDLE == "idle"
RUNNING == "running"
PAUSED == "paused"
STOPPING == "stopping"
ERROR == "error"

None == 0

\* the level modules challenges/level1..levelN
Levels == 1..NumLevels
\* levels a caller may pass: the registered ones and one unknown level
LevelArgs == 1..(NumLevels + 1)
Max(a, b) == IF a > b THEN a ELSE b
WorkerIds == 1..Max(MaxWorkers, Max(MaxRuns, MaxControlRuns))

\* challenges/levelN_*.py: self.prerequisites = [1 .. N-1]
prerequisites(L) == 1..(L - 1)

\* len(self.get_steps()) of level L: NumSteps for level 1, two fewer per
\* level above it, down to a challenge without steps
TotalSteps(L) ==
  IF NumSteps - 2 * (L - 1) > 0 THEN NumSteps - 2 * (L - 1) ELSE 0

VARIABLES
  state,                    \* ChallengeSystem.state
  current_challenge_level,  \* ChallengeSystem.current_challenge_level (None = 0)
  execution_thread,         \* ChallengeSystem.execution_thread (None = 0, else worker id)
  stop_requested,           \* ChallengeSystem.stop_requested
  pause_requested,          \* ChallengeSystem.pause_requested
  event_queue,              \* ChallengeSystem.event_queue (queue.Queue(), FIFO)
  challenges,               \* ChallengeManager.challenges: level -> BaseChallenge fields
  challenge_logs,           \* ChallengeManager.challenge_logs
  workers,                  \* the threads created so far: id -> frame of the thread
  nspawned,                 \* number of threads created
  stopper,                  \* a caller inside stop_execution's join: "none" | "joining"
                            \* (in SpecLive also a caller between the state test
                            \* and the writes of pause_execution, "pausing", or
                            \* of resume_execution, "resuming")
  ops,                      \* accepted pause/stop/reset calls so far
  env,                      \* what the surroundings of the orchestrator do in this
                            \* behaviour (never changes): the level modules that
                            \* loaded, how many threads and calls the callers make,
                            \* whether they start a thread while another is alive,
                            \* and the results the hooks of the challenges produce
  stop_result,              \* the last return of stop_execution: ret its value,
                            \* joined whether the thread had ended when it returned
  last_call                 \* the last start/pause/resume call that returned and
                            \* its value (kept only where env.record is set); where
                            \* one library function is exercised on its own, the
                            \* frame of its call: arguments, locals, result

\* everything but the record of the last call
program_vars ==
  <<state, current_challenge_level, execution_thread, stop_requested,
    pause_requested, event_queue, challenges, challenge_logs, workers,
    nspawned, stopper, ops, env, stop_result>>

vars == <<program_vars, last_call>>

\* ---------------------------------------------------------------- helpers

\* a float k/n kept as an exact fraction <<num, den>>
Frac(k, n) == <<k, n>>
FracEq(p, q) == p[1] * q[2] = q[1] * p[2]
Zero == <<0, 1>>
One == <<1, 1>>

\* BaseChallenge.__init__
NewChallenge ==
  [status |-> "not_started", progress |-> Zero, current_step |-> 0,
   success_count |-> 0, failure_count |-> 0, last_run |-> None,
   execution_time |-> 0, last_error |-> "None"]

\* a thread that has not been created
NoWorker ==
  [pc |-> "unborn", mode |-> "none", start_level |-> 0, level |-> 0,
   end_level |-> 0, step_num |-> 0, success |-> FALSE, trace |-> <<>>]

\* a thread whose target has returned (its frame is gone)
DoneWorker == [NoWorker EXCEPT !.pc = "done"]

\* threading.Thread.is_alive(): started and its target has not returned
is_alive(w) == w # None /\ workers[w].pc \notin {"unborn", "done"}

\* ChallengeSystem._emit_event: the event takes its level from
\* current_challenge_level at the time of the call and is put on the queue
_emit_event(q, ccl, event_type, data) ==
  Append(q, [event_type |-> event_type, level |-> ccl, data |-> data])

\* _log_challenge_event cutting with [:1000] instead of [-1000:] at line 159
_log_challenge_event_keeps_oldest(logs, level, event_type) ==
  LET a == Append(logs, [level |-> level, event_type |-> event_type])
  IN  IF Len(a) > LogCap THEN SubSeq(a, 1, LogCap) ELSE a

\* ChallengeManager._log_challenge_event
_log_challenge_event(logs, level, event_type) ==
  LET a == Append(logs, [level |-> level, event_type |-> event_type])
  IN  IF Len(a) > LogCap THEN SubSeq(a, Len(a) - LogCap + 1, Len(a)) ELSE a

\* _check_prerequisites looking only at line 135 (the prerequisite is
\* registered) and not at line 140 (it is completed)
_check_prerequisites_presence_only(ch, L) ==
  \A p \in prerequisites(L) : p \in DOMAIN ch

\* ChallengeManager._check_prerequisites, on the registry ch
_check_prerequisites(ch, L) ==
  \A p \in prerequisites(L) : p \in DOMAIN ch /\ ch[p].status = "completed"

\* the results a hook of a challenge can produce
SetupResults == {"ok", "fail"}
StepResults == {"ok", "fail", "raise"}
CleanupResults == {"ok", "raise"}

\* The seven registered challenges (challenges/level1..level7): none
\* overrides pre_challenge_setup (base_challenge.py 105-112 returns True),
\* every execute_step catches its exceptions and returns False, every
\* post_challenge_cleanup catches its exceptions.  Callers are any threads of
\* the web interface: they may start a thread while another is alive.
ProgramEnv ==
  [registry |-> Levels,
   overlap |-> TRUE, threads |-> MaxWorkers, ops |-> MaxOps,
   singles |-> Levels, sequences |-> {<<1, NumLevels>>},
   setup |-> {"ok"}, step |-> {"ok", "fail"}, cleanup |-> {"ok"},
   record |-> FALSE]

\* Any subclass of BaseChallenge registered at the levels: its hooks may
\* fail and raise.  The callers start a thread only when none is alive, make
\* no pause, stop or reset call, and may name a level that is not registered.  (InitRunner also lets
\* _load_challenges skip level modules that fail to import.)
SubclassEnv ==
  [registry |-> Levels,
   overlap |-> FALSE, threads |-> MaxRuns, ops |-> 0,
   singles |-> LevelArgs,
   sequences |-> {<<lo, hi>> \in LevelArgs \X LevelArgs : lo <= hi},
   setup |-> SetupResults, step |-> StepResults, cleanup |-> CleanupResults,
   record |-> FALSE]

\* The registered challenges driven by callers that start, pause, resume
\* and stop, but start a thread only when none is alive; what their start,
\* pause and resume calls return is recorded.
ControlEnv ==
  [registry |-> Levels,
   overlap |-> FALSE, threads |-> MaxControlRuns, ops |-> MaxOps,
   singles |-> Levels, sequences |-> {<<1, NumLevels>>},
   setup |-> {"ok"}, step |-> {"ok", "fail"}, cleanup |-> {"ok"},
   record |-> TRUE]

\* The registered challenges run one at a time and reset by the callers.
ResetEnv ==
  [registry |-> Levels,
   overlap |-> FALSE, threads |-> MaxRuns, ops |-> MaxResets,
   singles |-> Levels, sequences |-> {},
   setup |-> {"ok"}, step |-> {"ok", "fail"}, cleanup |-> {"ok"},
   record |-> FALSE]

\* The registered challenges run in a sequence or singly and reset, one
\* thread at a time, by callers that also read the log or the progress.
QueryEnv ==
  [registry |-> Levels,
   overlap |-> FALSE, threads |-> MaxControlRuns, ops |-> MaxOps,
   singles |-> Levels, sequences |-> {<<1, NumLevels>>},
   setup |-> {"ok"}, step |-> {"ok", "fail"}, cleanup |-> {"ok"},
   record |-> FALSE]

\* The system with no run started: its library functions are called on
\* their own.
LibraryEnv ==
  [registry |-> Levels,
   overlap |-> FALSE, threads |-> 0, ops |-> 0,
   singles |-> {}, sequences |-> {},
   setup |-> {"ok"}, step |-> {"ok"}, cleanup |-> {"ok"},
   record |-> FALSE]

\* the callers may create one more thread
CanStart ==
  /\ nspawned < env.threads
  /\ env.overlap \/ \A w \in WorkerIds : ~is_alive(w)

\* ------------------------------------------------------------------- Init
\* no call observed yet
NoCall == [op |-> "none", ret |-> FALSE]

\* the fields after construction, in the environment e
InitProgram(e) ==
  /\ state = IDLE
  /\ current_challenge_level = None
  /\ execution_thread = None
  /\ stop_requested = FALSE
  /\ pause_requested = FALSE
  /\ event_queue = <<>>
  /\ challenges = [L \in e.registry |-> NewChallenge]
  /\ challenge_logs = <<>>
  /\ workers = [w \in WorkerIds |-> NoWorker]
  /\ nspawned = 0
  /\ stopper = "none"
  /\ ops = 0
  /\ env = e
  /\ stop_result = [returned |-> FALSE, ret |-> FALSE, joined |-> FALSE]

InitWith(e) == InitProgram(e) /\ last_call = NoCall

Init == InitWith(ProgramEnv)
InitRunner ==
  \E R \in SUBSET Levels : InitWith([SubclassEnv EXCEPT !.registry = R])
InitControl == InitWith(ControlEnv)
InitReset == InitWith(ResetEnv)

\* ------------------------------------------------- control operations
\* (each runs on a caller thread)

\* the call op returns ret
Returns(op, ret) ==
  last_call' = IF env.record THEN [op |-> op, ret |-> ret] ELSE last_call

\* the call op returns False at its first check, having written nothing
Rejected(op) == Returns(op, FALSE) /\ UNCHANGED program_vars

Spawn(w, mode, lo, hi) ==
  [workers EXCEPT ![w] = [NoWorker EXCEPT !.pc = "spawned", !.mode = mode,
                                          !.start_level = lo, !.level = lo,
                                          !.end_level = hi]]

\* ChallengeSystem.start_challenge_sequence(start_level, end_level)
start_challenge_sequence(lo, hi) ==
  IF state # IDLE
  THEN Rejected("start_challenge_sequence")
  ELSE /\ CanStart
       /\ Returns("start_challenge_sequence", TRUE)
       /\ stop_requested' = FALSE
       /\ pause_requested' = FALSE
       /\ nspawned' = nspawned + 1
       /\ workers' = Spawn(nspawned + 1, "sequence", lo, hi)
       /\ execution_thread' = nspawned + 1
       /\ UNCHANGED <<stop_result, state, current_challenge_level, event_queue, challenges,
                      challenge_logs, stopper, ops, env>>

\* ChallengeSystem.start_single_challenge(level)
start_single_challenge(level) ==
  IF state \notin {IDLE, ERROR}
  THEN Rejected("start_single_challenge")
  ELSE /\ CanStart
       /\ Returns("start_single_challenge", TRUE)
       /\ stop_requested' = FALSE
       /\ pause_requested' = FALSE
       /\ nspawned' = nspawned + 1
       /\ workers' = Spawn(nspawned + 1, "single", level, level)
       /\ execution_thread' = nspawned + 1
       /\ UNCHANGED <<stop_result, state, current_challenge_level, event_queue, challenges,
                      challenge_logs, stopper, ops, env>>

\* ChallengeSystem.stop_execution, up to and including the start of the join
\* (lines 119-128).  A caller whose join has to wait stays in "joining".
stop_execution_begin ==
  /\ stopper = "none"
  /\ IF state \in {IDLE, STOPPING}
     THEN UNCHANGED vars
     ELSE /\ ops < env.ops
          /\ ops' = ops + 1
          /\ stop_requested' = TRUE
          /\ IF is_alive(execution_thread)
             THEN /\ state' = STOPPING
                  /\ stopper' = "joining"
                  /\ UNCHANGED <<current_challenge_level, event_queue, stop_result>>
             ELSE /\ state' = IDLE
                  /\ current_challenge_level' = None
                  /\ event_queue' = _emit_event(event_queue, None,
                                       "execution_stopped",
                                       [reason |-> "user_requested"])
                  /\ stop_result' = [returned |-> TRUE, ret |-> TRUE, joined |-> TRUE]
                  /\ UNCHANGED stopper
          /\ UNCHANGED <<execution_thread, pause_requested, challenges,
                         challenge_logs, workers, nspawned, env, last_call>>

\* ChallengeSystem.stop_execution, from the return of join(timeout=10) on
\* (lines 128-135): the join returns when the thread has ended or when the
\* ten seconds are over, whichever comes first.
stop_execution_end ==
  /\ stopper = "joining"
  /\ stopper' = "none"
  /\ state' = IDLE
  /\ current_challenge_level' = None
  /\ event_queue' = _emit_event(event_queue, None, "execution_stopped",
                                [reason |-> "user_requested"])
  /\ stop_result' = [returned |-> TRUE, ret |-> TRUE,
                     joined |-> ~is_alive(execution_thread)]
  /\ UNCHANGED <<execution_thread, stop_requested, pause_requested,
                 challenges, challenge_logs, workers, nspawned, ops, env,
                 last_call>>

\* pause_execution without the state check of lines 144-145
pause_execution_unchecked ==
  /\ ops < env.ops
  /\ Returns("pause_execution", TRUE)
  /\ ops' = ops + 1
  /\ pause_requested' = TRUE
  /\ state' = PAUSED
  /\ event_queue' = _emit_event(event_queue, current_challenge_level,
                                "execution_paused", [empty |-> TRUE])
  /\ UNCHANGED <<stop_result, current_challenge_level, execution_thread,
                 stop_requested, challenges, challenge_logs, workers,
                 nspawned, stopper, env>>

\* ChallengeSystem.pause_execution
pause_execution ==
  IF state # RUNNING
  THEN Rejected("pause_execution")
  ELSE /\ ops < env.ops
       /\ Returns("pause_execution", TRUE)
       /\ ops' = ops + 1
       /\ pause_requested' = TRUE
       /\ state' = PAUSED
       /\ event_queue' = _emit_event(event_queue, current_challenge_level,
                                     "execution_paused", [empty |-> TRUE])
       /\ UNCHANGED <<stop_result, current_challenge_level, execution_thread,
                      stop_requested, challenges, challenge_logs, workers,
                      nspawned, stopper, env>>

\* ChallengeSystem.resume_execution
resume_execution ==
  IF state # PAUSED
  THEN Rejected("resume_execution")
  ELSE /\ Returns("resume_execution", TRUE)
       /\ pause_requested' = FALSE
       /\ state' = RUNNING
       /\ event_queue' = _emit_event(event_queue, current_challenge_level,
                                     "execution_resumed", [empty |-> TRUE])
       /\ UNCHANGED <<stop_result, current_challenge_level, execution_thread,
                      stop_requested, challenges, challenge_logs, workers,
                      nspawned, stopper, ops, env>>

\* BaseChallenge.reset
\* BaseChallenge.reset without line 126 (last_error is kept)
reset_keeps_last_error(c) ==
  [c EXCEPT !.status = "not_started", !.progress = Zero, !.current_step = 0]

\* BaseChallenge.reset that also starts the failure count again
reset_clears_failure_count(c) ==
  [c EXCEPT !.status = "not_started", !.progress = Zero,
            !.current_step = 0, !.last_error = "None", !.failure_count = 0]

reset(c) ==
  [c EXCEPT !.status = "not_started", !.progress = Zero,
            !.current_step = 0, !.last_error = "None"]

\* ChallengeSystem.reset_challenge(level), with
\* ChallengeManager.reset_challenge (a ValueError for an unknown level is
\* caught at line 438)
reset_challenge(level) ==
  IF (state = RUNNING /\ current_challenge_level = level)
     \/ level \notin DOMAIN challenges
  THEN UNCHANGED vars
  ELSE /\ ops < env.ops
       /\ ops' = ops + 1
       /\ challenges' = [challenges EXCEPT ![level] = reset(@)]
       /\ challenge_logs' = _log_challenge_event(challenge_logs, level, "reset")
       /\ event_queue' = _emit_event(event_queue, current_challenge_level,
                                     "challenge_reset", [level |-> level])
       /\ UNCHANGED <<stop_result, last_call, state, current_challenge_level,
                      execution_thread, stop_requested, pause_requested,
                      workers, nspawned, stopper, env>>

\* ------------------------------------------------------- worker threads
\* workers[w] is the frame of thread w:
\*   pc          where the thread is
\*   mode        "sequence" (_execute_challenge_sequence) or "single"
\*   start_level the argument start_level
\*   level       the loop variable / argument `level`
\*   end_level   the argument end_level
\*   step_num    the loop variable of BaseChallenge.execute
\*   success     the value run_challenge returned to the thread
\*   trace       the hooks execute() has invoked in the current run, in
\*               order, each with its result (observation only)

Called(w, call, arg, result) ==
  Append(workers[w].trace, [call |-> call, arg |-> arg, result |-> result])

\* a prerequisite of L is missing from the registry or is not completed
PrereqUnmet(L) ==
  \E p \in prerequisites(L) :
     p \notin DOMAIN challenges \/ challenges[p].status # "completed"

\* the handling of `not success` without line 249 / 288 (state = ERROR)
WorkerFails_state_kept(w, q, ccl) ==
  /\ state' = state
  /\ event_queue' =
       IF workers[w].mode = "sequence"
       THEN _emit_event(q, ccl, "sequence_failed",
                        [failed_level |-> workers[w].level,
                         reason |-> "challenge_failed"])
       ELSE _emit_event(q, ccl, "challenge_failed",
                        [level |-> workers[w].level])

\* the thread's handling of `not success`
\*   sequence: lines 247-254, single: lines 286-290
\* q is the event queue and ccl the current_challenge_level at that point
WorkerFails(w, q, ccl) ==
  /\ state' = ERROR
  /\ event_queue' =
       IF workers[w].mode = "sequence"
       THEN _emit_event(q, ccl, "sequence_failed",
                        [failed_level |-> workers[w].level,
                         reason |-> "challenge_failed"])
       ELSE _emit_event(q, ccl, "challenge_failed",
                        [level |-> workers[w].level])

\* _execute_challenge_sequence, lines 226-230
SequenceBegin(w) ==
  /\ workers[w].pc = "spawned"
  /\ workers[w].mode = "sequence"
  /\ state' = RUNNING
  /\ event_queue' = _emit_event(event_queue, current_challenge_level,
                       "sequence_started",
                       [start_level |-> workers[w].start_level,
                        end_level |-> workers[w].end_level])
  /\ workers' = [workers EXCEPT ![w].pc = "loop"]
  /\ UNCHANGED <<current_challenge_level, execution_thread, stop_requested,
                 pause_requested, challenges, challenge_logs, nspawned,
                 stopper, ops, env, stop_result, last_call>>

\* _execute_challenge_sequence, one pass over the loop head (lines 232-242)
\* up to the first blocking call of _execute_challenge_with_monitoring
\* (line 303), or the loop exit with lines 260-268.  While pause_requested
\* is set and stop_requested is not, the thread stays in the wait loop.
SequenceLoop(w) ==
  /\ workers[w].pc = "loop"
  /\ IF workers[w].level > workers[w].end_level \/ stop_requested
     THEN /\ event_queue' =
               IF ~stop_requested
               THEN _emit_event(event_queue, current_challenge_level,
                       "sequence_completed",
                       [start_level |-> workers[w].start_level,
                        end_level |-> workers[w].end_level])
               ELSE event_queue
          /\ state' = IDLE
          /\ current_challenge_level' = None
          /\ workers' = [workers EXCEPT ![w] = DoneWorker]
     ELSE /\ ~pause_requested
          /\ current_challenge_level' = workers[w].level
          /\ workers' = [workers EXCEPT ![w].pc = "pre_run"]
          /\ UNCHANGED <<state, event_queue>>
  /\ UNCHANGED <<execution_thread, stop_requested, pause_requested,
                 challenges, challenge_logs, nspawned, stopper, ops, env, stop_result, last_call>>

\* _execute_single_challenge, lines 278-279, and line 303 of
\* _execute_challenge_with_monitoring
SingleBegin(w) ==
  /\ workers[w].pc = "spawned"
  /\ workers[w].mode = "single"
  /\ state' = RUNNING
  /\ event_queue' = _emit_event(event_queue, current_challenge_level,
                       "challenge_started", [level |-> workers[w].level])
  /\ current_challenge_level' = workers[w].level
  /\ workers' = [workers EXCEPT ![w].pc = "pre_run"]
  /\ UNCHANGED <<execution_thread, stop_requested, pause_requested,
                 challenges, challenge_logs, nspawned, stopper, ops, env, stop_result, last_call>>

\* ------------------------------------- BaseChallenge.execute, field writes

\* lines 48-51
execute_begin(c) ==
  [c EXCEPT !.status = "running", !.progress = Zero, !.current_step = 0,
            !.last_error = "None"]

\* line 64
execute_next_step(c, step_num) == [c EXCEPT !.current_step = step_num + 1]

\* line 75 left out: progress is not updated after a step
execute_progress_skipped(c, total_steps) == c

\* line 75
execute_progress(c, total_steps) ==
  [c EXCEPT !.progress = Frac(c.current_step, total_steps)]

\* lines 85-86 without line 86: progress is left as the loop left it
execute_completed_status_only(c) == [c EXCEPT !.status = "completed"]

\* lines 85-86
execute_completed(c) == [c EXCEPT !.status = "completed", !.progress = One]

\* lines 92-93
execute_failed(c, message) ==
  [c EXCEPT !.status = "failed", !.last_error = message]

\* --------------------------- ChallengeManager.run_challenge, field writes
\* the attempt is stamped with the id of the thread making it: last_run
\* (time.time()) and execution_time (the time execute() took) of an attempt
\* are values no other attempt has

\* lines 103-108
run_succeeded(c, stamp) ==
  [c EXCEPT !.execution_time = stamp, !.last_run = stamp,
            !.success_count = @ + 1, !.status = "completed"]

\* lines 103-104, 112-113
run_failed(c, stamp) ==
  [c EXCEPT !.execution_time = stamp, !.last_run = stamp,
            !.failure_count = @ + 1, !.status = "failed"]

\* lines 121-122 without the failure_count += 1 of line 120
run_error_uncounted(c, message) ==
  [c EXCEPT !.status = "error", !.last_error = message]

\* lines 120-122
run_error(c, message) ==
  [c EXCEPT !.failure_count = @ + 1, !.status = "error",
            !.last_error = message]

\* _execute_challenge_with_monitoring from line 310: run_challenge up to the
\* call of pre_challenge_setup (challenge_manager.py 83-99, base_challenge.py
\* 48-59).  An unknown level (ValueError, line 84) and unmet prerequisites
\* (line 95, handled at 119-125) come back to the thread as an exception,
\* which line 328 turns into `return False`.
RunChallenge(w) ==
  LET L == workers[w].level IN
  /\ workers[w].pc = "pre_run"
  /\ IF L \notin DOMAIN challenges
     THEN /\ WorkerFails(w, event_queue, current_challenge_level)
          /\ workers' = [workers EXCEPT ![w] = DoneWorker]
          /\ UNCHANGED <<challenges, challenge_logs>>
     ELSE IF ~_check_prerequisites(challenges, L)
     THEN /\ challenges' = [challenges EXCEPT
                 ![L] = run_error(@, "Prerequisites not met")]
          /\ challenge_logs' = _log_challenge_event(
                 _log_challenge_event(challenge_logs, L, "started"), L, "error")
          /\ WorkerFails(w, event_queue, current_challenge_level)
          /\ workers' = [workers EXCEPT ![w] = DoneWorker]
     ELSE /\ challenges' = [challenges EXCEPT ![L] = execute_begin(@)]
          /\ challenge_logs' = _log_challenge_event(challenge_logs, L, "started")
          /\ workers' = [workers EXCEPT ![w].pc = "setup", ![w].step_num = 0,
                                        ![w].trace = <<>>]
          /\ UNCHANGED <<state, event_queue>>
  /\ UNCHANGED <<current_challenge_level, execution_thread, stop_requested,
                 pause_requested, nspawned, stopper, ops, env, stop_result, last_call>>

\* execute(): the loop at line 63 with step_num steps done: either the next
\* step is entered (line 64 sets current_step, line 70 calls execute_step)
\* or the loop is over and line 83 calls post_challenge_cleanup
EnterStep(c, L, step_num) ==
  IF step_num < TotalSteps(L) THEN execute_next_step(c, step_num) ELSE c
AfterSteps(L, step_num) ==
  IF step_num < TotalSteps(L) THEN "in_step" ELSE "cleanup"

\* line 59 ignoring what pre_challenge_setup returns
setup_never_raises(r) == FALSE

\* line 59: `if not self.pre_challenge_setup(): raise`
setup_raises(r) == r # "ok"

\* lines 70-72 without the `if not success: raise` of lines 71-72
step_raises_only_on_exception(r) == r = "raise"

\* lines 70-72: execute_step raised, or `if not success: raise`
step_raises(r) == r # "ok"

\* execute(): pre_challenge_setup returns r (lines 59-60; a failure goes to
\* the handler at 91-93), and on "ok" the loop is entered
Setup(w, r) ==
  LET L == workers[w].level IN
  /\ workers[w].pc = "setup"
  /\ IF ~setup_raises(r)
     THEN /\ challenges' = [challenges EXCEPT ![L] = EnterStep(@, L, 0)]
          /\ workers' = [workers EXCEPT
                 ![w].pc = AfterSteps(L, 0),
                 ![w].trace = Called(w, "pre_challenge_setup", 0, r)]
     ELSE /\ challenges' = [challenges EXCEPT
                 ![L] = execute_failed(@, "Pre-challenge setup failed")]
          /\ workers' = [workers EXCEPT
                 ![w].pc = "except_cleanup",
                 ![w].trace = Called(w, "pre_challenge_setup", 0, r)]
  /\ UNCHANGED <<state, current_challenge_level, execution_thread,
                 stop_requested, pause_requested, event_queue, challenge_logs,
                 nspawned, stopper, ops, env, stop_result, last_call>>

\* execute(): execute_step(step_num) returns r (lines 70-80): on "ok"
\* progress is updated and the loop goes on, a failure or an exception goes
\* to the handler at 91-93
StepEnd(w, r) ==
  LET L == workers[w].level
      n == workers[w].step_num
  IN
  /\ workers[w].pc = "in_step"
  /\ IF ~step_raises(r)
     THEN /\ challenges' = [challenges EXCEPT
                 ![L] = EnterStep(execute_progress(@, TotalSteps(L)), L, n + 1)]
          /\ workers' = [workers EXCEPT
                 ![w].pc = AfterSteps(L, n + 1),
                 ![w].step_num = n + 1,
                 ![w].trace = Called(w, "execute_step", n, r)]
     ELSE /\ challenges' = [challenges EXCEPT
                 ![L] = execute_failed(@, IF r = "fail" THEN "Step failed"
                                          ELSE "exception in step")]
          /\ workers' = [workers EXCEPT
                 ![w].pc = "except_cleanup",
                 ![w].trace = Called(w, "execute_step", n, r)]
  /\ UNCHANGED <<state, current_challenge_level, execution_thread,
                 stop_requested, pause_requested, event_queue, challenge_logs,
                 nspawned, stopper, ops, env, stop_result, last_call>>

\* execute(): post_challenge_cleanup at line 83 returns r; on "ok" execute
\* returns True (85-89) and run_challenge finishes (100-117); a raise goes to
\* the handler at 91-93
Cleanup(w, r) ==
  LET L == workers[w].level IN
  /\ workers[w].pc = "cleanup"
  /\ IF r = "ok"
     THEN /\ challenges' = [challenges EXCEPT
                 ![L] = run_succeeded(execute_completed(@), w)]
          /\ challenge_logs' = _log_challenge_event(challenge_logs, L, "completed")
          /\ workers' = [workers EXCEPT
                 ![w].pc = "post_run", ![w].success = TRUE,
                 ![w].trace = Called(w, "post_challenge_cleanup", 0, r)]
     ELSE /\ challenges' = [challenges EXCEPT
                 ![L] = execute_failed(@, "exception in cleanup")]
          /\ workers' = [workers EXCEPT
                 ![w].pc = "except_cleanup",
                 ![w].trace = Called(w, "post_challenge_cleanup", 0, r)]
          /\ UNCHANGED challenge_logs
  /\ UNCHANGED <<state, current_challenge_level, execution_thread,
                 stop_requested, pause_requested, event_queue,
                 nspawned, stopper, ops, env, stop_result, last_call>>

\* execute(): post_challenge_cleanup in the handler (lines 98-101) returns
\* r, an exception being caught there; execute returns False (103) and
\* run_challenge finishes (100-117)
ExceptCleanup(w, r) ==
  LET L == workers[w].level IN
  /\ workers[w].pc = "except_cleanup"
  /\ challenges' = [challenges EXCEPT ![L] = run_failed(@, w)]
  /\ challenge_logs' = _log_challenge_event(challenge_logs, L, "failed")
  /\ workers' = [workers EXCEPT
        ![w].pc = "post_run", ![w].success = FALSE,
        ![w].trace = Called(w, "post_challenge_cleanup", 0, r)]
  /\ UNCHANGED <<state, current_challenge_level, execution_thread,
                 stop_requested, pause_requested, event_queue,
                 nspawned, stopper, ops, env, stop_result, last_call>>

\* _execute_challenge_with_monitoring, lines 314-326 (after psutil's
\* sampling), and the thread's handling of the result:
\*   sequence: lines 247-258, single: lines 283-293
PostRun(w) ==
  LET L == workers[w].level
      q == _emit_event(event_queue, current_challenge_level,
                       "challenge_metrics",
                       [level |-> L, success |-> workers[w].success])
  IN
  /\ workers[w].pc = "post_run"
  /\ IF ~workers[w].success
     THEN /\ WorkerFails(w, q, current_challenge_level)
          /\ workers' = [workers EXCEPT ![w] = DoneWorker]
          /\ UNCHANGED current_challenge_level
     ELSE IF workers[w].mode = "sequence"
     THEN /\ event_queue' = q
          /\ workers' = [workers EXCEPT ![w].pc = "loop", ![w].level = @ + 1,
                                        ![w].success = FALSE,
                                        ![w].step_num = 0, ![w].trace = <<>>]
          /\ UNCHANGED <<state, current_challenge_level>>
     ELSE /\ event_queue' = _emit_event(q, current_challenge_level,
                               "challenge_completed", [level |-> L])
          /\ state' = IDLE
          /\ current_challenge_level' = None
          /\ workers' = [workers EXCEPT ![w] = DoneWorker]
  /\ UNCHANGED <<execution_thread, stop_requested, pause_requested,
                 challenges, challenge_logs, nspawned, stopper, ops, env, stop_result, last_call>>

\* ------------------------------------------------------------------ Next
Next ==
  \/ \E a \in env.sequences : start_challenge_sequence(a[1], a[2])
  \/ \E l \in env.singles : start_single_challenge(l)
  \/ stop_execution_begin
  \/ stop_execution_end
  \/ pause_execution
  \/ resume_execution
  \/ \E l \in LevelArgs : reset_challenge(l)
  \/ \E w \in WorkerIds : SequenceBegin(w)
  \/ \E w \in WorkerIds : SequenceLoop(w)
  \/ \E w \in WorkerIds : SingleBegin(w)
  \/ \E w \in WorkerIds : RunChallenge(w)
  \/ \E w \in WorkerIds, r \in env.setup : Setup(w, r)
  \/ \E w \in WorkerIds, r \in env.step : StepEnd(w, r)
  \/ \E w \in WorkerIds, r \in env.cleanup : Cleanup(w, r)
  \/ \E w \in WorkerIds, r \in env.cleanup : ExceptCleanup(w, r)
  \/ \E w \in WorkerIds : PostRun(w)

\* the program with its registered challenges, callers unrestricted
Spec == Init /\ [][Next]_vars

\* the runs themselves: the starts and the threads, without the
\* pause/resume/stop/reset controls
NextRunner ==
  \/ \E a \in env.sequences : start_challenge_sequence(a[1], a[2])
  \/ \E l \in env.singles : start_single_challenge(l)
  \/ \E w \in WorkerIds : SequenceBegin(w)
  \/ \E w \in WorkerIds : SequenceLoop(w)
  \/ \E w \in WorkerIds : SingleBegin(w)
  \/ \E w \in WorkerIds : RunChallenge(w)
  \/ \E w \in WorkerIds, r \in env.setup : Setup(w, r)
  \/ \E w \in WorkerIds, r \in env.step : StepEnd(w, r)
  \/ \E w \in WorkerIds, r \in env.cleanup : Cleanup(w, r)
  \/ \E w \in WorkerIds, r \in env.cleanup : ExceptCleanup(w, r)
  \/ \E w \in WorkerIds : PostRun(w)

\* BaseChallenge and the manager against any subclass, one thread at a time
SpecRunner == InitRunner /\ [][NextRunner]_vars

\* starting, pausing, resuming and stopping, without reset_challenge
NextControl ==
  \/ \E a \in env.sequences : start_challenge_sequence(a[1], a[2])
  \/ \E l \in env.singles : start_single_challenge(l)
  \/ stop_execution_begin
  \/ stop_execution_end
  \/ pause_execution
  \/ resume_execution
  \/ \E w \in WorkerIds : SequenceBegin(w)
  \/ \E w \in WorkerIds : SequenceLoop(w)
  \/ \E w \in WorkerIds : SingleBegin(w)
  \/ \E w \in WorkerIds : RunChallenge(w)
  \/ \E w \in WorkerIds, r \in env.setup : Setup(w, r)
  \/ \E w \in WorkerIds, r \in env.step : StepEnd(w, r)
  \/ \E w \in WorkerIds, r \in env.cleanup : Cleanup(w, r)
  \/ \E w \in WorkerIds, r \in env.cleanup : ExceptCleanup(w, r)
  \/ \E w \in WorkerIds : PostRun(w)

\* the registered challenges paused, resumed and stopped, one thread at a
\* time
SpecControl == InitControl /\ [][NextControl]_vars

\* single runs and resets
NextReset ==
  \/ \E l \in env.singles : start_single_challenge(l)
  \/ \E l \in LevelArgs : reset_challenge(l)
  \/ \E w \in WorkerIds : SingleBegin(w)
  \/ \E w \in WorkerIds : RunChallenge(w)
  \/ \E w \in WorkerIds, r \in env.setup : Setup(w, r)
  \/ \E w \in WorkerIds, r \in env.step : StepEnd(w, r)
  \/ \E w \in WorkerIds, r \in env.cleanup : Cleanup(w, r)
  \/ \E w \in WorkerIds, r \in env.cleanup : ExceptCleanup(w, r)
  \/ \E w \in WorkerIds : PostRun(w)

\* the registered challenges run singly and reset, one thread at a time
SpecReset == InitReset /\ [][NextReset]_vars

\* ------------------------------------------------ the event bus alone
\* ChallengeSystem._emit_event with registered listeners, called from one
\* thread.  The frame: n listeners are registered (event_listeners, told
\* apart by their position), pc is where the call stands, next the position
\* of the listener the loop of line 374 calls next, event the event being
\* emitted, invoked the listeners called with it so far, raised those of
\* them that raised.  The data of an event is its order number.

\* number of events published: N + 5 for the retention bound N
MaxEvents == EventRetention + 5

EventTypes == {"challenge_reset", "execution_paused"}

BusFrame(n) ==
  [op |-> "_emit_event", n |-> n, pc |-> "idle", next |-> 0,
   event |-> <<>>, invoked |-> <<>>, raised |-> {}]

\* ChallengeSystem.add_event_listener (lines 214-216)
add_event_listener ==
  /\ last_call.pc = "idle"
  /\ last_call.n < MaxListeners
  /\ last_call' = [last_call EXCEPT !.n = @ + 1]
  /\ UNCHANGED program_vars

\* _emit_event, lines 362-371: the event is built and put on the queue
EmitPut(event_type) ==
  /\ last_call.pc = "idle"
  /\ Len(event_queue) < MaxEvents
  /\ event_queue' = _emit_event(event_queue, current_challenge_level,
                                event_type, [level |-> Len(event_queue) + 1])
  /\ last_call' = [last_call EXCEPT
                     !.pc = "notify", !.next = 1,
                     !.event = event_queue'[Len(event_queue')],
                     !.invoked = <<>>, !.raised = {}]
  /\ UNCHANGED <<state, current_challenge_level, execution_thread,
                 stop_requested, pause_requested, challenges, challenge_logs,
                 workers, nspawned, stopper, ops, env, stop_result>>

\* one pass of the loop of lines 374-378 in which a listener that raises
\* ends the loop (its exception reaches the handler of line 380)
EmitNotify_raise_ends_loop(r) ==
  /\ last_call.pc = "notify"
  /\ last_call.next <= last_call.n
  /\ last_call' =
       [last_call EXCEPT
          !.invoked = Append(@, last_call.next),
          !.raised = IF r = "raise" THEN @ \cup {last_call.next} ELSE @,
          !.next = IF r = "raise" THEN last_call.n + 1 ELSE @ + 1]
  /\ UNCHANGED program_vars

\* one pass of the loop of lines 374-378: the next listener is called with
\* the event and returns (r = "ok") or raises an Exception (r = "raise"),
\* which line 377 catches
EmitNotify(r) ==
  /\ last_call.pc = "notify"
  /\ last_call.next <= last_call.n
  /\ last_call' =
       [last_call EXCEPT
          !.invoked = Append(@, last_call.next),
          !.raised = IF r = "raise" THEN @ \cup {last_call.next} ELSE @,
          !.next = @ + 1]
  /\ UNCHANGED program_vars

\* the loop of line 374 is over: _emit_event returns to its caller
EmitReturn ==
  /\ last_call.pc = "notify"
  /\ last_call.next > last_call.n
  /\ last_call' = [last_call EXCEPT !.pc = "idle"]
  /\ UNCHANGED program_vars

InitBus == InitProgram(LibraryEnv) /\ last_call = BusFrame(0)

NextBus ==
  \/ add_event_listener
  \/ \E t \in EventTypes : EmitPut(t)
  \/ \E r \in {"ok", "raise"} : EmitNotify(r)
  \/ EmitReturn

\* events published to listeners, one thread emitting
SpecBus == InitBus /\ [][NextBus]_vars

\* ------------------------------------------------ the execution log alone
\* ChallengeManager._log_challenge_event and get_recent_logs called directly
\* (as src/tests/test_challenge_manager.py does).  The frame: appended is
\* the number of _log_challenge_event calls made; op, limit and ret are the
\* last call, its argument and what it returned.  The level argument of
\* the k-th append is k, which tells the entries apart.

\* the Python slice s[start:]
SliceFrom(s, start) ==
  LET n == Len(s)
      from == IF start < 0
              THEN (IF n + start > 0 THEN n + start ELSE 0)
              ELSE (IF start < n THEN start ELSE n)
  IN  SubSeq(s, from + 1, n)

\* ChallengeManager.get_recent_logs
get_recent_logs(logs, limit) == SliceFrom(logs, 0 - limit)

LogFrame == [op |-> "none", appended |-> 0, limit |-> 0, ret |-> <<>>]

\* a call of _log_challenge_event
LogAppend ==
  /\ last_call.appended < LogCap + MaxOverflow
  /\ challenge_logs' = _log_challenge_event(challenge_logs,
                                            last_call.appended + 1, "test")
  /\ last_call' = [LogFrame EXCEPT !.op = "_log_challenge_event",
                                   !.appended = last_call.appended + 1]
  /\ UNCHANGED <<state, current_challenge_level, execution_thread,
                 stop_requested, pause_requested, event_queue, challenges,
                 workers, nspawned, stopper, ops, env, stop_result>>

\* a call of get_recent_logs(limit)
GetRecentLogs(limit) ==
  /\ last_call' = [last_call EXCEPT
                     !.op = "get_recent_logs", !.limit = limit,
                     !.ret = get_recent_logs(challenge_logs, limit)]
  /\ UNCHANGED program_vars

InitLog == InitProgram(LibraryEnv) /\ last_call = LogFrame

NextLog ==
  \/ LogAppend
  \/ \E n \in 0..MaxCount : GetRecentLogs(n)

\* the execution log appended to and read, one caller
SpecLog == InitLog /\ [][NextLog]_vars

\* ------------------------------------------------ the read operations
\* get_challenge_logs and get_overall_progress called between the steps of
\* runs and resets.  The frame: op the last read, level and count its
\* arguments, ret what it returned.

\* ChallengeSystem.get_challenge_logs(level, count) (level None: no level
\* given); both branches of line 415 make the same call
get_challenge_logs(logs, level, count) ==
  IF level # None
  THEN get_recent_logs(logs, count)
  ELSE get_recent_logs(logs, count)

\* sum(1 for c in challenges.values() if c.status == "completed"), line 179
RECURSIVE CountCompleted(_, _)
CountCompleted(ch, levels) ==
  IF levels = {} THEN 0
  ELSE LET L == CHOOSE x \in levels : TRUE
       IN  (IF ch[L].status = "completed" THEN 1 ELSE 0)
             + CountCompleted(ch, levels \ {L})

\* max(levels, default=0), line 185
MaxLevel(levels) ==
  IF levels = {} THEN 0
  ELSE CHOOSE m \in levels : \A x \in levels : x <= m

\* get_overall_progress counting at line 179 the challenges that have ever
\* succeeded instead of those whose status is "completed"
get_overall_progress_counts_successes(ch) ==
  LET total_challenges == Cardinality(DOMAIN ch)
      completed_challenges ==
        Cardinality({L \in DOMAIN ch : ch[L].success_count > 0})
  IN  [total_challenges |-> total_challenges,
       completed_challenges |-> completed_challenges,
       completion_percentage |->
         IF total_challenges > 0
         THEN Frac(completed_challenges * 100, total_challenges)
         ELSE Zero,
       current_level |->
         MaxLevel({L \in DOMAIN ch : ch[L].status = "completed"}) + 1]

\* ChallengeManager.get_overall_progress
get_overall_progress(ch) ==
  LET total_challenges == Cardinality(DOMAIN ch)
      completed_challenges == CountCompleted(ch, DOMAIN ch)
  IN  [total_challenges |-> total_challenges,
       completed_challenges |-> completed_challenges,
       completion_percentage |->
         IF total_challenges > 0
         THEN Frac(completed_challenges * 100, total_challenges)
         ELSE Zero,
       current_level |->
         MaxLevel({L \in DOMAIN ch : ch[L].status = "completed"}) + 1]

\* a call of get_challenge_logs(level, count)
GetChallengeLogs(level, count) ==
  /\ last_call' = [op |-> "get_challenge_logs", level |-> level,
                   count |-> count,
                   ret |-> get_challenge_logs(challenge_logs, level, count)]
  /\ UNCHANGED program_vars

\* a call of get_overall_progress()
GetOverallProgress ==
  /\ last_call' = [op |-> "get_overall_progress", level |-> None,
                   count |-> 0, ret |-> get_overall_progress(challenges)]
  /\ UNCHANGED program_vars

InitQuery ==
  \E R \in {{}, Levels} :
    InitProgram([QueryEnv EXCEPT !.registry = R]) /\ last_call = NoCall

\* sequence runs, single runs and resets
NextRuns ==
  \/ \E a \in env.sequences : start_challenge_sequence(a[1], a[2])
  \/ \E l \in env.singles : start_single_challenge(l)
  \/ \E l \in LevelArgs : reset_challenge(l)
  \/ \E w \in WorkerIds : SequenceBegin(w)
  \/ \E w \in WorkerIds : SequenceLoop(w)
  \/ \E w \in WorkerIds : SingleBegin(w)
  \/ \E w \in WorkerIds : RunChallenge(w)
  \/ \E w \in WorkerIds, r \in env.setup : Setup(w, r)
  \/ \E w \in WorkerIds, r \in env.step : StepEnd(w, r)
  \/ \E w \in WorkerIds, r \in env.cleanup : Cleanup(w, r)
  \/ \E w \in WorkerIds, r \in env.cleanup : ExceptCleanup(w, r)
  \/ \E w \in WorkerIds : PostRun(w)

NextQuery ==
  \/ NextRuns
  \/ \E l \in {None} \cup Levels, n \in 1..MaxCount : GetChallengeLogs(l, n)

\* runs and resets with the log read in between
SpecQuery == InitQuery /\ [][NextQuery]_vars

NextProgress ==
  \/ NextRuns
  \/ GetOverallProgress

\* runs and resets with the progress read in between
SpecProgress == InitQuery /\ [][NextProgress]_vars

\* ------------------------------------------------ utils.retry_with_backoff
\* The wrapper returned by retry_with_backoff(func, max_attempts,
\* exceptions=...), called once.  The frame: max_attempts and exceptions
\* are the arguments, attempt the loop variable of line 253, outcomes what
\* each call of func did so far (it returned, or raised an exception of
\* some type), slept the sleeps made, pc where the wrapper stands, result
\* what it returned or raised: the number of the call of func whose value
\* or exception it is, or "TypeError" for `raise None`.

ExceptionTypes == {"ValueError", "KeyError"}

FuncOutcomes == {"return"} \cup ExceptionTypes

RetryFrame(m, listed) ==
  [op |-> "retry_with_backoff", max_attempts |-> m, exceptions |-> listed,
   pc |-> "loop", attempt |-> 0, outcomes |-> <<>>, slept |-> <<>>,
   result |-> 0]

\* one pass of the loop in which the value func returned is kept but the
\* wrapper goes on to the next attempt instead of returning at line 255
RetryCall_no_return(r) ==
  LET f == last_call
      n == Len(f.outcomes) + 1
      last == f.attempt = f.max_attempts - 1
  IN
  /\ f.op = "retry_with_backoff"
  /\ f.pc = "loop"
  /\ f.attempt < f.max_attempts
  /\ last_call' =
       IF r = "return"
       THEN [f EXCEPT !.outcomes = Append(@, r), !.result = n,
                      !.pc = IF last THEN "returned" ELSE "loop",
                      !.attempt = IF last THEN @ ELSE @ + 1]
       ELSE IF r \notin f.exceptions \/ last
       THEN [f EXCEPT !.outcomes = Append(@, r), !.pc = "raised",
                      !.result = n]
       ELSE [f EXCEPT !.outcomes = Append(@, r), !.pc = "sleep"]
  /\ UNCHANGED program_vars

\* one pass of the loop of lines 253-265: func is called and returns
\* (line 255 returns its value), or raises an exception that is not listed
\* (it leaves the wrapper), or raises a listed one, which is raised again
\* on the last attempt (line 261) and slept on otherwise
RetryCall(r) ==
  LET f == last_call
      n == Len(f.outcomes) + 1
  IN
  /\ f.op = "retry_with_backoff"
  /\ f.pc = "loop"
  /\ f.attempt < f.max_attempts
  /\ last_call' =
       IF r = "return"
       THEN [f EXCEPT !.outcomes = Append(@, r), !.pc = "returned",
                      !.result = n]
       ELSE IF r \notin f.exceptions \/ f.attempt = f.max_attempts - 1
       THEN [f EXCEPT !.outcomes = Append(@, r), !.pc = "raised",
                      !.result = n]
       ELSE [f EXCEPT !.outcomes = Append(@, r), !.pc = "sleep"]
  /\ UNCHANGED program_vars

\* lines 263-265: the wrapper sleeps base_delay * backoff_factor ** attempt
\* and goes to the next attempt; slept keeps the exponents
RetrySleep ==
  /\ last_call.op = "retry_with_backoff"
  /\ last_call.pc = "sleep"
  /\ last_call' = [last_call EXCEPT !.pc = "loop",
                                    !.slept = Append(@, last_call.attempt),
                                    !.attempt = @ + 1]
  /\ UNCHANGED program_vars

\* the loop ends without a return or a raise (max_attempts <= 0): line 268
\* raises last_exception, which is None
RetryExhausted ==
  /\ last_call.op = "retry_with_backoff"
  /\ last_call.pc = "loop"
  /\ last_call.attempt >= last_call.max_attempts
  /\ last_call' = [last_call EXCEPT !.pc = "raised", !.result = "TypeError"]
  /\ UNCHANGED program_vars

InitRetry ==
  /\ InitProgram(LibraryEnv)
  /\ \E m \in 0..MaxAttempts, listed \in SUBSET ExceptionTypes :
       last_call = RetryFrame(m, listed)

NextRetry ==
  \/ \E r \in FuncOutcomes : RetryCall(r)
  \/ RetrySleep
  \/ RetryExhausted

\* one call of a function wrapped by retry_with_backoff
SpecRetry == InitRetry /\ [][NextRetry]_vars

\* ------------------------------------------- control calls and resets

\* The registered challenges run one thread at a time by callers that
\* pause, resume, stop and reset while the thread runs.
ControlResetEnv == [ControlEnv EXCEPT !.ops = MaxResets]

InitControlReset == InitWith(ControlResetEnv)

NextControlReset ==
  \/ NextControl
  \/ \E l \in LevelArgs : reset_challenge(l)

\* one run at a time, with pause, resume, stop and reset calls made while
\* it is under way
SpecControlReset == InitControlReset /\ [][NextControlReset]_vars

\* --------------------------- pause and resume racing with the thread
\* pause_execution and resume_execution test self.state and write it some
\* statements later, holding no lock: the thread may write self.state in
\* between.  Here each call is two steps.

\* pause_execution, the test of lines 144-145
pause_execution_test ==
  /\ stopper = "none"
  /\ IF state # RUNNING
     THEN Rejected("pause_execution")
     ELSE /\ ops < env.ops
          /\ ops' = ops + 1
          /\ stopper' = "pausing"
          /\ UNCHANGED <<state, current_challenge_level, execution_thread,
                         stop_requested, pause_requested, event_queue,
                         challenges, challenge_logs, workers, nspawned, env,
                         stop_result, last_call>>

\* pause_execution, lines 147-153
pause_execution_write ==
  /\ stopper = "pausing"
  /\ stopper' = "none"
  /\ Returns("pause_execution", TRUE)
  /\ pause_requested' = TRUE
  /\ state' = PAUSED
  /\ event_queue' = _emit_event(event_queue, current_challenge_level,
                                "execution_paused", [empty |-> TRUE])
  /\ UNCHANGED <<stop_result, current_challenge_level, execution_thread,
                 stop_requested, challenges, challenge_logs, workers,
                 nspawned, ops, env>>

\* resume_execution, the test of lines 162-163
resume_execution_test ==
  /\ stopper = "none"
  /\ IF state # PAUSED
     THEN Rejected("resume_execution")
     ELSE /\ stopper' = "resuming"
          /\ UNCHANGED <<state, current_challenge_level, execution_thread,
                         stop_requested, pause_requested, event_queue,
                         challenges, challenge_logs, workers, nspawned, ops,
                         env, stop_result, last_call>>

\* resume_execution, lines 165-171
resume_execution_write ==
  /\ stopper = "resuming"
  /\ stopper' = "none"
  /\ Returns("resume_execution", TRUE)
  /\ pause_requested' = FALSE
  /\ state' = RUNNING
  /\ event_queue' = _emit_event(event_queue, current_challenge_level,
                                "execution_resumed", [empty |-> TRUE])
  /\ UNCHANGED <<stop_result, current_challenge_level, execution_thread,
                 stop_requested, challenges, challenge_logs, workers,
                 nspawned, ops, env>>

\* a step of an execution thread
ThreadStep ==
  \/ \E w \in WorkerIds : SequenceBegin(w)
  \/ \E w \in WorkerIds : SequenceLoop(w)
  \/ \E w \in WorkerIds : SingleBegin(w)
  \/ \E w \in WorkerIds : RunChallenge(w)
  \/ \E w \in WorkerIds, r \in env.setup : Setup(w, r)
  \/ \E w \in WorkerIds, r \in env.step : StepEnd(w, r)
  \/ \E w \in WorkerIds, r \in env.cleanup : Cleanup(w, r)
  \/ \E w \in WorkerIds, r \in env.cleanup : ExceptCleanup(w, r)
  \/ \E w \in WorkerIds : PostRun(w)

NextLive ==
  \/ \E a \in env.sequences : start_challenge_sequence(a[1], a[2])
  \/ \E l \in env.singles : start_single_challenge(l)
  \/ stop_execution_begin
  \/ stop_execution_end
  \/ pause_execution_test
  \/ pause_execution_write
  \/ resume_execution_test
  \/ resume_execution_write
  \/ ThreadStep

\* a paused orchestrator is resumed
ResumePaused == state = PAUSED /\ resume_execution_test

\* One run at a time with pause, resume and stop calls.  The thread is
\* scheduled and its hooks return (ThreadStep), a call that has begun runs
\* to its return, the join of stop_execution included, and the callers
\* resume a paused orchestrator.
SpecLive ==
  /\ InitControl
  /\ [][NextLive]_vars
  /\ WF_vars(ThreadStep)
  /\ WF_vars(stop_execution_end)
  /\ WF_vars(pause_execution_write)
  /\ WF_vars(resume_execution_write)
  /\ WF_vars(ResumePaused)

\* ================================================================ claims

\* positions of a thread inside BaseChallenge.execute
ExecPcs == {"setup", "in_step", "cleanup", "except_cleanup"}

\* thread w is driving a run of a challenge (it is inside run_challenge)
Driving(w) == workers[w].pc \in ExecPcs

\* some thread is inside a step of challenge L
InStep(L) ==
  \E w \in WorkerIds : workers[w].pc = "in_step" /\ workers[w].level = L

\* C1: of two start_challenge_sequence calls made against an Idle
\* orchestrator before the first thread has begun to run, only one is
\* accepted: there are never two sequence threads of which the earlier has
\* not yet begun.
C1_StartsMutuallyExclusive ==
  \A w1, w2 \in WorkerIds :
     ~ ( /\ w1 < w2
         /\ workers[w1].mode = "sequence" /\ workers[w1].pc = "spawned"
         /\ workers[w2].mode = "sequence" /\ workers[w2].pc # "unborn" )

\* C2: at most one challenge of the registry has status "running".
C2_AtMostOneRunning ==
  Cardinality({L \in DOMAIN challenges : challenges[L].status = "running"}) <= 1

\* C3: the orchestrator state is Running only while a thread is alive, and
\* a thread drives a challenge only while the state is Running.
C3_RunningIffDriving ==
  /\ state = RUNNING => \E w \in WorkerIds : is_alive(w)
  /\ \A w \in WorkerIds : Driving(w) => state = RUNNING

\* the execute_step entries of a trace, in order
StepCalls(tr) == SelectSeq(tr, LAMBDA e : e.call = "execute_step")

\* the post_challenge_cleanup entries of a trace, in order
CleanupCalls(tr) == SelectSeq(tr, LAMBDA e : e.call = "post_challenge_cleanup")

\* thread w has come back from execute() into run_challenge's bookkeeping
Returned(w) == workers[w].pc = "post_run"

\* C4: prerequisite gating.  When run_challenge(L) is called while a
\* prerequisite of L is missing from the registry or not completed, the
\* thread never reaches pre_challenge_setup, a step or the cleanup of L: no
\* hook of L is invoked and the thread leaves run_challenge at once.
C4_PrerequisiteGating ==
  [][ \A w \in WorkerIds :
        ( /\ workers[w].pc = "pre_run"
          /\ workers[w].level \in DOMAIN challenges
          /\ PrereqUnmet(workers[w].level)
          /\ workers'[w] # workers[w] )
        => /\ workers'[w].pc \notin ExecPcs \cup {"post_run"}
           /\ workers'[w].trace = <<>> ]_vars

\* C4, its case: a run has been aborted by the gate
C4_Witness ==
  \E L \in DOMAIN challenges :
     /\ challenges[L].status = "error"
     /\ challenges[L].last_error = "Prerequisites not met"
     /\ PrereqUnmet(L)

\* C5: start_single_challenge(L) with an unmet prerequisite leaves the
\* status of challenge L at "not_started".
C5_StatusRemainsNotStarted ==
  [][ \A w \in WorkerIds :
        ( /\ workers[w].pc = "pre_run"
          /\ workers[w].mode = "single"
          /\ workers[w].level \in DOMAIN challenges
          /\ PrereqUnmet(workers[w].level)
          /\ challenges[workers[w].level].status = "not_started"
          /\ workers'[w] # workers[w] )
        => challenges'[workers[w].level].status = "not_started" ]_vars

\* C6: fail-fast.  In every run the steps are invoked in order 1, 2, ...;
\* a step that returns failure or raises is the last step invoked (so if
\* it is step k, exactly k steps were invoked and k+1..n never are), and
\* execute() then returns failure with last_error set.
C6_FailFast ==
  \A w \in WorkerIds :
     LET s == StepCalls(workers[w].trace) IN
     /\ Len(s) <= TotalSteps(workers[w].level)
     /\ \A i \in 1..Len(s) :
          /\ s[i].arg = i - 1
          /\ s[i].result # "ok" => i = Len(s)
     /\ ( /\ Returned(w)
          /\ \E i \in 1..Len(s) : s[i].result # "ok" )
        => /\ ~workers[w].success
           /\ challenges[workers[w].level].last_error # "None"

\* C6, its case: step 1 of a challenge of more than one step has failed
\* and execute() has returned
C6_Witness ==
  \E w \in WorkerIds :
     LET s == StepCalls(workers[w].trace) IN
     /\ Returned(w)
     /\ TotalSteps(workers[w].level) > 1
     /\ Len(s) = 1 /\ s[1].result # "ok"

\* C7: when pre_challenge_setup reports failure no step is invoked, the
\* cleanup is still invoked, and execute() returns failure with status
\* "failed", also when that cleanup raises.
C7_SetupFailure ==
  \A w \in WorkerIds :
     LET tr == workers[w].trace IN
     ( /\ tr # <<>>
       /\ tr[1].call = "pre_challenge_setup" /\ tr[1].result # "ok" )
     => /\ StepCalls(tr) = <<>>
        /\ workers[w].pc \in {"except_cleanup", "post_run"}
        /\ Returned(w) =>
             /\ Len(tr) = 2 /\ tr[2].call = "post_challenge_cleanup"
             /\ ~workers[w].success
             /\ challenges[workers[w].level].status = "failed"

\* C7, its case: the setup failed, the cleanup raised, execute() returned
C7_Witness ==
  \E w \in WorkerIds :
     LET tr == workers[w].trace IN
     /\ Returned(w)
     /\ Len(tr) = 2
     /\ tr[1].call = "pre_challenge_setup" /\ tr[1].result = "fail"
     /\ tr[2].call = "post_challenge_cleanup" /\ tr[2].result = "raise"

\* all steps of the run of thread w have been invoked and succeeded
AllStepsSucceeded(w) ==
  LET s == StepCalls(workers[w].trace) IN
  /\ Len(s) = TotalSteps(workers[w].level)
  /\ \A i \in 1..Len(s) : s[i].result = "ok"

\* C8: a cleanup that fails after all steps have succeeded does not
\* downgrade the run: execute() returns success with status "completed"
\* and progress 1.0.
C8_CleanupFailureKeepsSuccess ==
  \A w \in WorkerIds :
     LET c == CleanupCalls(workers[w].trace) IN
     ( /\ Returned(w)
       /\ AllStepsSucceeded(w)
       /\ c # <<>> /\ c[1].result = "raise" )
     => /\ workers[w].success
        /\ challenges[workers[w].level].status = "completed"
        /\ FracEq(challenges[workers[w].level].progress, One)

\* C9: a run in which a step raised ends with status "error" and the
\* exception's message in last_error; a run in which a step returned
\* failure ends with status "failed".
C9_FaultIsError ==
  \A w \in WorkerIds :
     LET s == StepCalls(workers[w].trace) IN
     ( Returned(w) /\ s # <<>> )
     => /\ s[Len(s)].result = "raise" =>
             /\ challenges[workers[w].level].status = "error"
             /\ challenges[workers[w].level].last_error = "exception in step"
        /\ s[Len(s)].result = "fail" =>
             challenges[workers[w].level].status = "failed"

\* C10 as stated: a challenge (with at least one step) with status
\* "running" has progress = current_step / total_steps, a step being
\* executed or not.
C10_ProgressIsCurrentStep ==
  \A L \in DOMAIN challenges :
     ( challenges[L].status = "running" /\ TotalSteps(L) > 0 )
     => FracEq(challenges[L].progress,
               Frac(challenges[L].current_step, TotalSteps(L)))

\* C10 as amended: a challenge (with at least one step) with status
\* "running" of which no step is being executed has
\* progress = current_step / total_steps (while a step is executed
\* current_step already counts it and progress does not).
C10_ProgressBetweenSteps ==
  \A L \in DOMAIN challenges :
     ( challenges[L].status = "running" /\ ~InStep(L) /\ TotalSteps(L) > 0 )
     => FracEq(challenges[L].progress,
               Frac(challenges[L].current_step, TotalSteps(L)))

\* C10, its case: the steps of a running challenge are over and progress
\* has followed current_step up to the last step
C10_Witness ==
  \E w \in WorkerIds :
     LET L == workers[w].level IN
     /\ workers[w].pc = "cleanup"
     /\ challenges[L].status = "running"
     /\ challenges[L].current_step = TotalSteps(L)
     /\ TotalSteps(L) > 1
     /\ FracEq(challenges[L].progress, One)

\* C11: a challenge whose last run completed successfully has progress
\* 1.0 and current_step = len(steps), whatever the number of its steps
\* (zero included).
C11_CompletedRunIsFull ==
  \A L \in DOMAIN challenges :
     challenges[L].status = "completed"
     => /\ FracEq(challenges[L].progress, One)
        /\ challenges[L].current_step = TotalSteps(L)

\* C11, its case: a challenge without steps has completed a run, and so
\* has one with steps
C11_Witness ==
  \E L, M \in DOMAIN challenges :
     /\ TotalSteps(L) = 0 /\ challenges[L].status = "completed"
     /\ TotalSteps(M) > 0 /\ challenges[M].status = "completed"

\* thread w leaves run_challenge(L) of a registered level L in this step
RunEnds(w) ==
  /\ workers[w].level \in DOMAIN challenges
  /\ \/ workers[w].pc = "pre_run" /\ workers'[w].pc = "done"
     \/ workers[w].pc \in {"cleanup", "except_cleanup"}
        /\ workers'[w].pc = "post_run"

\* C14: every attempt to run a challenge records last_run and
\* execution_time, whatever its outcome: when run_challenge(L) ends,
\* last_run and execution_time of L are those of this attempt.
C14_LastRunAlwaysRecorded ==
  [][ \A w \in WorkerIds :
        RunEnds(w)
        => /\ challenges'[workers[w].level].last_run = w
           /\ challenges'[workers[w].level].execution_time = w ]_vars

\* C16: stop_execution returns True only when the thread has ended, and
\* False when its join timed out with the thread still alive.
C16_StopReportsTimeout ==
  stop_result.returned => (stop_result.ret = stop_result.joined)

\* an event as <<type, level it is about>> (0 for an event about no level)
EventSig(e) ==
  <<e.event_type, IF "level" \in DOMAIN e.data THEN e.data.level ELSE 0>>

EventSigs(q) == [i \in 1..Len(q) |-> EventSig(q[i])]

\* number of events of a type in a queue
CountEvents(q, event_type) ==
  Cardinality({i \in 1..Len(q) : q[i].event_type = event_type})

\* C18: start_challenge_sequence(1, 3) in which level 1 succeeds and level
\* 2 fails puts on the queue exactly sequence_started, challenge_started(1),
\* challenge_completed(1), challenge_started(2), challenge_failed(2),
\* sequence_failed, in this order.
C18_SequenceEventTrace ==
  ( /\ nspawned = 1
    /\ event_queue # <<>>
    /\ event_queue[1].event_type = "sequence_started"
    /\ event_queue[1].data = [start_level |-> 1, end_level |-> 3]
    /\ event_queue[Len(event_queue)].event_type = "sequence_failed"
    /\ event_queue[Len(event_queue)].data.failed_level = 2
    /\ 2 \in DOMAIN challenges /\ challenges[2].status = "failed" )
  => EventSigs(event_queue) =
       << <<"sequence_started", 0>>, <<"challenge_started", 1>>,
          <<"challenge_completed", 1>>, <<"challenge_started", 2>>,
          <<"challenge_failed", 2>>, <<"sequence_failed", 0>> >>

\* thread w runs a sequence and its level has just not succeeded: the run
\* came back False, or run_challenge is about to raise
LevelNotSucceeded(w) ==
  /\ workers[w].mode = "sequence"
  /\ \/ workers[w].pc = "post_run" /\ ~workers[w].success
     \/ /\ workers[w].pc = "pre_run"
        /\ \/ workers[w].level \notin DOMAIN challenges
           \/ PrereqUnmet(workers[w].level)

\* C19: a sequence stops at the first level k that does not succeed: the
\* thread ends there (no level above k is run), sequence_failed is emitted
\* once, with failed_level k, and the state is Error.
C19_SequenceStopsAtFailure ==
  [][ \A w \in WorkerIds :
        ( LevelNotSucceeded(w) /\ workers'[w] # workers[w] )
        => /\ workers'[w].pc = "done"
           /\ state' = ERROR
           /\ CountEvents(event_queue', "sequence_failed")
                = CountEvents(event_queue, "sequence_failed") + 1
           /\ event_queue'[Len(event_queue')].event_type = "sequence_failed"
           /\ event_queue'[Len(event_queue')].data.failed_level
                = workers[w].level ]_vars

\* C19, its case: the only sequence so far has failed at a level below its
\* end_level, and nothing above that level was started
C19_Witness ==
  /\ nspawned = 1 /\ workers[1].pc = "done" /\ state = ERROR
  /\ event_queue # <<>>
  /\ event_queue[1].event_type = "sequence_started"
  /\ event_queue[Len(event_queue)].event_type = "sequence_failed"
  /\ event_queue[Len(event_queue)].data.failed_level
       < event_queue[1].data.end_level
  /\ event_queue[Len(event_queue)].data.failed_level
       > event_queue[1].data.start_level
  /\ \A i \in 1..Len(challenge_logs) :
       challenge_logs[i].level
         <= event_queue[Len(event_queue)].data.failed_level

\* the step is an accepted reset_challenge(L): only it logs "reset"
ResetOf(L) ==
  /\ L \in DOMAIN challenges
  /\ challenge_logs' = Append(challenge_logs,
                              [level |-> L, event_type |-> "reset"])

\* the last entry of the challenge log is the reset of L
JustReset(L) ==
  /\ Len(challenge_logs) > 0
  /\ challenge_logs[Len(challenge_logs)] = [level |-> L, event_type |-> "reset"]

\* C12: whatever the status of challenge L before it, an accepted reset of
\* L leaves its status "not_started", its progress 0, its current_step 0
\* and its last_error cleared; a reset that directly follows a reset of L
\* changes nothing of L.
C12_ResetIdempotent ==
  [][\A L \in Levels :
       ResetOf(L) =>
         /\ challenges'[L].status = "not_started"
         /\ FracEq(challenges'[L].progress, Zero)
         /\ challenges'[L].current_step = 0
         /\ challenges'[L].last_error = "None"
         /\ (JustReset(L) => challenges'[L] = challenges[L])]_vars

\* C12 witness: a challenge that ended "failed" or "error" (its failure is
\* still counted) has been reset twice in a row.
C12_Witness ==
  \E L \in Levels :
    /\ L \in DOMAIN challenges
    /\ challenges[L].failure_count > 0
    /\ challenges[L].status = "not_started"
    /\ Len(challenge_logs) > 1
    /\ JustReset(L)
    /\ challenge_logs[Len(challenge_logs) - 1] = [level |-> L, event_type |-> "reset"]

\* C13: an accepted reset of L leaves success_count, failure_count,
\* last_run and execution_time of L as they were, and every other challenge
\* entirely as it was.
C13_ResetFrame ==
  [][\A L \in Levels :
       ResetOf(L) =>
         /\ challenges'[L].success_count = challenges[L].success_count
         /\ challenges'[L].failure_count = challenges[L].failure_count
         /\ challenges'[L].last_run = challenges[L].last_run
         /\ challenges'[L].execution_time = challenges[L].execution_time
         /\ \A M \in DOMAIN challenges \ {L} :
              challenges'[M] = challenges[M]]_vars

\* C13 witness: a challenge with a counted success and a recorded last run
\* has been reset while another challenge stood completed.
C13_Witness ==
  \E L, M \in Levels :
    /\ L \in DOMAIN challenges /\ M \in DOMAIN challenges /\ M # L
    /\ JustReset(L)
    /\ challenges[L].status = "not_started"
    /\ challenges[L].success_count > 0
    /\ challenges[L].last_run # None
    /\ challenges[M].status = "completed"

\* the state in which the control operation op is refused
OutsidePrecondition(op) ==
  CASE op = "start_challenge_sequence" -> state # IDLE
    [] op = "start_single_challenge"   -> state \notin {IDLE, ERROR}
    [] op = "pause_execution"          -> state # RUNNING
    [] op = "resume_execution"         -> state # PAUSED
    [] OTHER                           -> FALSE

\* C15: a start, pause or resume call made in a state outside its
\* precondition returns False, creates no thread, and leaves state,
\* stop_requested, pause_requested and the event queue as they were.
C15_RejectedIsNoOp ==
  [][(last_call' # last_call /\ OutsidePrecondition(last_call'.op)) =>
       /\ last_call'.ret = FALSE
       /\ UNCHANGED <<state, stop_requested, pause_requested, event_queue,
                      execution_thread, workers, nspawned>>]_vars

\* C15 witness: a start has just been refused while a thread was running a
\* challenge.
C15_Witness ==
  /\ last_call = [op |-> "start_challenge_sequence", ret |-> FALSE]
  /\ state = RUNNING
  /\ is_alive(execution_thread)
  /\ Len(event_queue) > 0

\* the step is the beginning of a run_challenge call: it logs "started"
RunBegins ==
  /\ Len(challenge_logs') > Len(challenge_logs)
  /\ challenge_logs'[Len(challenge_logs) + 1].event_type = "started"

\* pause_execution has returned True during the run of a sequence thread
\* and resume_execution has not been called since
PausedSequence ==
  /\ state = PAUSED
  /\ pause_requested
  /\ \E w \in WorkerIds :
       workers[w].mode = "sequence" /\ workers[w].pc \notin {"unborn", "done"}

\* C17: while a sequence is paused (pause_execution returned True, no
\* resume_execution since), the thread makes no new run_challenge call.
C17_PauseBetweenChallenges ==
  [][PausedSequence => ~RunBegins]_vars

\* the events of the queue q of type event_type: their positions
EventsOf(q, event_type) ==
  {i \in 1..Len(q) : q[i].event_type = event_type}

\* C20: sequence_completed is never emitted for a sequence that was
\* stopped: a sequence_completed that follows an execution_stopped in the
\* event queue belongs to a sequence that started after that stop.
C20_NoCompletionAfterStop ==
  \A i \in EventsOf(event_queue, "execution_stopped") :
    \A j \in EventsOf(event_queue, "sequence_completed") :
      i < j => \E k \in EventsOf(event_queue, "sequence_started") :
                 i < k /\ k < j

\* the queue q holds the events of one sequence run and nothing else
OneSequenceRun(q) ==
  /\ nspawned = 1
  /\ Len(q) > 0
  /\ q[1].event_type = "sequence_started"

\* the event e is about level L: it names L in its data (as level or as
\* failed_level)
EventAbout(e, L) ==
  \/ "level" \in DOMAIN e.data /\ e.data.level = L
  \/ "failed_level" \in DOMAIN e.data /\ e.data.failed_level = L

\* C21: in a sequence run the challenge_metrics event of level N comes
\* after a challenge_started event of level N and before every event of
\* level N+1.
C21_MetricsAfterStarted ==
  OneSequenceRun(event_queue) =>
    \A j \in EventsOf(event_queue, "challenge_metrics") :
      LET N == event_queue[j].data.level IN
      /\ \E i \in EventsOf(event_queue, "challenge_started") :
           i < j /\ event_queue[i].data.level = N
      /\ \A k \in 1..Len(event_queue) :
           EventAbout(event_queue[k], N + 1) => j < k

\* C22: every challenge-scoped event carries in its level field the level
\* of the challenge it is about (the one its data names).
C22_EventLevelIsItsChallenge ==
  \A i \in 1..Len(event_queue) :
    event_queue[i].event_type \in
        {"challenge_started", "challenge_completed", "challenge_failed",
         "challenge_error", "challenge_metrics", "challenge_reset"}
      => event_queue[i].level = event_queue[i].data.level

\* C23: the event bus never retains more than its bound N of events
\* (publishing N + 5 events leaves the N most recent).
C23_EventRetentionBounded ==
  Len(event_queue) <= EventRetention

\* the step is the return of an _emit_event call
EmitReturns ==
  /\ last_call.op = "_emit_event"
  /\ last_call.pc = "notify"
  /\ last_call'.pc = "idle"

\* C24: when _emit_event returns, every registered listener has been called
\* with the event, in registration order, whichever of them raised, and
\* the event is on the queue; the call returns normally after the last
\* listener.
C24_ListenerIsolation ==
  [][EmitReturns =>
       /\ last_call.invoked = [i \in 1..last_call.n |-> i]
       /\ Len(event_queue') > 0
       /\ event_queue'[Len(event_queue')] = last_call.event]_vars

\* C24 witness: an emit has returned after its first listener raised and
\* its second was called all the same.
C24_Witness ==
  /\ last_call.op = "_emit_event"
  /\ last_call.pc = "idle"
  /\ last_call.n = 2
  /\ 1 \in last_call.raised
  /\ last_call.invoked = <<1, 2>>
  /\ Len(event_queue) > 0

Min(a, b) == IF a < b THEN a ELSE b

\* the last n elements of the sequence s
Last(s, n) == SubSeq(s, Len(s) - n + 1, Len(s))

\* C25: the execution log never holds more than 1000 entries; after k
\* appends it holds the most recent min(k, 1000) of them in the order of
\* their insertion.
C25_LogBounded ==
  LET k == last_call.appended
      n == Len(challenge_logs)
  IN  /\ n <= LogCap
      /\ n = Min(k, LogCap)
      /\ \A i \in 1..n : challenge_logs[i].level = k - n + i

\* C25 witness: MaxOverflow entries more than the log holds have been
\* appended and the oldest MaxOverflow are gone.
C25_Witness ==
  /\ last_call.appended = LogCap + MaxOverflow
  /\ Len(challenge_logs) = LogCap
  /\ challenge_logs[1].level = MaxOverflow + 1

\* C26: get_recent_logs(n) returns the min(n, len) most recently appended
\* entries in insertion order, for every n >= 0.
C26_RecentLogs ==
  last_call.op = "get_recent_logs" =>
    last_call.ret = Last(challenge_logs,
                         Min(last_call.limit, Len(challenge_logs)))

\* the step is a call of the read operation op (it changes nothing else)
ReadStep(op) == last_call' # last_call /\ last_call'.op = op

\* C27: get_challenge_logs called with a level returns only entries of
\* that level; called without a level it returns the most recent entries
\* of all levels.
C27_LogsOfLevel ==
  [][ReadStep("get_challenge_logs") =>
       IF last_call'.level # None
       THEN \A i \in 1..Len(last_call'.ret) :
              last_call'.ret[i].level = last_call'.level
       ELSE last_call'.ret =
              Last(challenge_logs, Min(last_call'.count, Len(challenge_logs)))
     ]_vars

\* the registered levels whose status is not "completed"
NotCompleted == {L \in DOMAIN challenges : challenges[L].status # "completed"}

\* C28: the current_level of get_overall_progress is the smallest
\* registered level whose status is not "completed" (one more than the
\* highest level when all are completed).
C28_NextLevelIsSmallestOpen ==
  [][ReadStep("get_overall_progress") =>
       IF NotCompleted # {}
       THEN /\ last_call'.ret.current_level \in NotCompleted
            /\ \A L \in NotCompleted : last_call'.ret.current_level <= L
       ELSE last_call'.ret.current_level = MaxLevel(DOMAIN challenges) + 1
     ]_vars

\* C29: get_overall_progress reports as total_challenges the number of
\* registered challenges and as completed_challenges the number of those
\* whose status is "completed" (between 0 and the total); its
\* completion_percentage is 0 for an empty registry.
C29_ProgressCounts ==
  [][ReadStep("get_overall_progress") =>
       LET r == last_call'.ret
           done == {L \in DOMAIN challenges :
                      challenges[L].status = "completed"}
       IN  /\ r.total_challenges = Cardinality(DOMAIN challenges)
           /\ r.completed_challenges = Cardinality(done)
           /\ 0 <= r.completed_challenges
           /\ r.completed_challenges <= r.total_challenges
           /\ (DOMAIN challenges = {} =>
                 FracEq(r.completion_percentage, Zero))
     ]_vars

\* C29 witness: the progress has been read after a run and a reset, with a
\* challenge that had succeeded no longer completed and another one still
\* completed.
C29_Witness ==
  /\ last_call.op = "get_overall_progress"
  /\ last_call.ret = get_overall_progress(challenges)
  /\ last_call.ret.completed_challenges = 1
  /\ last_call.ret.total_challenges = NumLevels
  /\ \E L \in DOMAIN challenges :
       challenges[L].success_count > 0 /\ challenges[L].status = "not_started"

\* C30: the wrapper of retry_with_backoff(func, max_attempts = m) calls
\* func at most m times; it returns the value of the first call that does
\* not raise and calls func no more after it; when all m calls raised a
\* listed exception it raises the exception of the m-th call.
C30_RetryAtMostM ==
  LET f == last_call
      n == Len(f.outcomes)
  IN  /\ n <= f.max_attempts
      /\ \A i \in 1..(n - 1) : f.outcomes[i] # "return"
      /\ (f.pc = "returned" => f.outcomes[n] = "return" /\ f.result = n)
      /\ (f.pc # "returned" /\ n > 0 => f.outcomes[n] # "return")
      /\ (f.pc = "raised" /\ n = f.max_attempts /\ n > 0
            /\ (\A i \in 1..n : f.outcomes[i] \in f.exceptions)
          => f.result = f.max_attempts)

\* C30 witness: with max_attempts = 3 a function that failed twice and then
\* succeeded has been called exactly three times and its value returned.
C30_Witness ==
  /\ last_call.op = "retry_with_backoff"
  /\ last_call.max_attempts = 3
  /\ last_call.outcomes = <<"ValueError", "ValueError", "return">>
  /\ last_call.pc = "returned"
  /\ last_call.result = 3
\* stop_execution has returned and no start call has been accepted since:
\* the orchestrator is as the stop left it, execution_stopped being the last
\* event of the queue, and no thread is waiting to begin (a thread started
\* since would be waiting or would have emitted its first event)
StopReturned ==
  /\ stop_result.returned
  /\ stopper = "none"
  /\ state = IDLE
  /\ current_challenge_level = None
  /\ event_queue # <<>>
  /\ event_queue[Len(event_queue)].event_type = "execution_stopped"
  /\ \A w \in WorkerIds : workers[w].pc # "spawned"

\* C31: once stop_execution has returned, the state is Idle and
\* current_challenge_level is None, and both stay so until the next start
\* call is accepted; the stopped thread writes neither of them afterwards
\* and emits no event.
C31_StoppedStaysStopped ==
  [][ ( StopReturned /\ nspawned' = nspawned )
      => /\ state' = IDLE
         /\ current_challenge_level' = None
         /\ event_queue' = event_queue ]_vars
\* thread w comes back from _execute_challenge_with_monitoring in this
\* step: its attempt at workers[w].level is over
AttemptEnds(w) ==
  \/ workers[w].pc = "pre_run" /\ workers'[w].pc = "done"
  \/ workers[w].pc = "post_run" /\ workers'[w] # workers[w]

\* the challenge_metrics events of the queue q about level L: their
\* positions
MetricsOf(q, L) ==
  {i \in 1..Len(q) : /\ q[i].event_type = "challenge_metrics"
                     /\ q[i].data.level = L}

\* C34: every challenge a thread attempts, alone or in a sequence and
\* whatever the outcome (unmet prerequisites and an unknown level
\* included), yields exactly one challenge_metrics event, carrying the
\* level and the success flag of the attempt.
C34_OneMetricsPerAttempt ==
  [][ \A w \in WorkerIds :
        AttemptEnds(w)
        => LET L == workers[w].level
               new == MetricsOf(event_queue', L) \ MetricsOf(event_queue, L)
           IN  /\ Cardinality(new) = 1
               /\ \A i \in new :
                    event_queue'[i].data.success = workers[w].success ]_vars
\* number of run_challenge calls on level L that got as far as the log
\* entry of line 88: the "started" entries of the log
Started(logs, L) ==
  Cardinality({i \in 1..Len(logs) :
                 logs[i].level = L /\ logs[i].event_type = "started"})

\* C38: every run_challenge call on a registered level adds exactly 1 to
\* exactly one of success_count and failure_count, to success_count exactly
\* when the call returns True; so when the call is over the two counters
\* add up to the number of calls made on that level.
C38_OneCounterPerRun ==
  [][ \A w \in WorkerIds :
        RunEnds(w)
        => LET L == workers[w].level
               c == challenges[L]
               d == challenges'[L]
           IN  /\ IF workers'[w].pc = "post_run" /\ workers'[w].success
                  THEN /\ d.success_count = c.success_count + 1
                       /\ d.failure_count = c.failure_count
                  ELSE /\ d.success_count = c.success_count
                       /\ d.failure_count = c.failure_count + 1
               /\ d.success_count + d.failure_count
                    = Started(challenge_logs', L) ]_vars

\* C38 witness: a challenge has been run twice, once failing and once
\* succeeding, and no run is under way.
C38_Witness ==
  \E L \in DOMAIN challenges :
     /\ challenges[L].success_count = 1
     /\ challenges[L].failure_count = 1
     /\ Started(challenge_logs, L) = 2
     /\ \A w \in WorkerIds : ~Driving(w)
\* C39: in every reachable state, after any runs and resets, a challenge
\* whose status is "completed" has all its prerequisite levels "completed".
C39_CompletedHasPrerequisites ==
  \A L \in DOMAIN challenges :
     challenges[L].status = "completed"
     => \A p \in prerequisites(L) :
          p \in DOMAIN challenges /\ challenges[p].status = "completed"
\* C40: every call of execute() whose setup was attempted has invoked
\* post_challenge_cleanup exactly once when it returns, whether the run
\* succeeded, a step failed, or the cleanup itself raised.
C40_CleanupExactlyOnce ==
  \A w \in WorkerIds :
     ( /\ Returned(w)
       /\ \E i \in 1..Len(workers[w].trace) :
            workers[w].trace[i].call = "pre_challenge_setup" )
     => Len(CleanupCalls(workers[w].trace)) = 1
\* a start call is accepted in this step: it creates the thread nspawned'
StartAccepted == nspawned' = nspawned + 1

\* this step belongs to a stop_execution call
StopStep == stopper' # stopper \/ (stop_requested' /\ ~stop_requested)

\* this step is the first of an accepted single-challenge run
SingleRunBegins ==
  \E w \in WorkerIds :
     /\ workers[w].pc = "spawned" /\ workers[w].mode = "single"
     /\ workers'[w].pc = "pre_run"

\* C37: after a failed run has left the state Error, start_single_challenge
\* is accepted and start_challenge_sequence is rejected, and the state
\* returns to Idle only through stop_execution or an accepted
\* single-challenge run that succeeds: the state leaves Error only by a stop
\* or by the first step of an accepted single-challenge run.
C37_ErrorRecovery ==
  [][ /\ ( state = ERROR /\ StartAccepted )
         => workers'[nspawned'].mode = "single"
      /\ ( state = ERROR /\ CanStart )
         => ENABLED ( /\ \E l \in env.singles : start_single_challenge(l)
                      /\ StartAccepted )
      /\ ( state = ERROR /\ state' # ERROR )
         => StopStep \/ SingleRunBegins ]_vars

\* some thread is executing challenge L: it is inside run_challenge(L)
Executing(L) ==
  \E w \in WorkerIds : Driving(w) /\ workers[w].level = L

\* C33: while a thread is executing challenge L, in whatever state the
\* orchestrator is (Paused and Stopping included), reset_challenge(L) is
\* refused and status, progress, current_step and last_error of L are as
\* the thread wrote them: no accepted reset of L happens then.
C33_NoResetWhileExecuting ==
  [][ \A L \in Levels : Executing(L) => ~ResetOf(L) ]_vars
\* ------------------------------------------- the event queue read back
\* (get_system_status, line 204, calls _get_recent_events; the only other
\* user of the queue is _emit_event)

\* the sequence s from its last element to its first
Reversed(s) == [i \in 1..Len(s) |-> s[Len(s) - i + 1]]

\* _get_recent_events, lines 389-400: the events the loop takes off the
\* queue with get_nowait, which takes from the head
taken_events(q, count) == SubSeq(q, 1, Min(count, Len(q)))

\* _get_recent_events, lines 402-407: the queue after the taken events have
\* been put back with put_nowait, which puts at the tail
events_put_back(q, count) ==
  SubSeq(q, Min(count, Len(q)) + 1, Len(q)) \o taken_events(q, count)

\* _get_recent_events, line 410: what the call returns
_get_recent_events(q, count) == Reversed(taken_events(q, count))

\* _emit_event with no listener registered: the k-th event emitted says so
\* in its data
EmitEvent(event_type) ==
  /\ Len(event_queue) < MaxQueued
  /\ event_queue' = _emit_event(event_queue, current_challenge_level,
                                event_type, [seq |-> Len(event_queue) + 1])
  /\ last_call' = [op |-> "_emit_event", count |-> 0, ret |-> <<>>]
  /\ UNCHANGED <<state, current_challenge_level, execution_thread,
                 stop_requested, pause_requested, challenges, challenge_logs,
                 workers, nspawned, stopper, ops, env, stop_result>>

\* ChallengeSystem._get_recent_events(count)
GetRecentEvents(count) ==
  /\ event_queue' = events_put_back(event_queue, count)
  /\ last_call' = [op |-> "_get_recent_events", count |-> count,
                   ret |-> _get_recent_events(event_queue, count)]
  /\ UNCHANGED <<state, current_challenge_level, execution_thread,
                 stop_requested, pause_requested, challenges, challenge_logs,
                 workers, nspawned, stopper, ops, env, stop_result>>

InitEvents == InitProgram(LibraryEnv) /\ last_call = NoCall

NextEvents ==
  \/ \E t \in EventTypes : EmitEvent(t)
  \/ \E c \in 0..MaxCount : GetRecentEvents(c)

\* events emitted and read back, one caller at a time
SpecEvents == InitEvents /\ [][NextEvents]_vars

\* the step is a call of _get_recent_events that returns
RecentEventsRead ==
  last_call'.op = "_get_recent_events" /\ last_call' # last_call

\* the k-th event emitted, which the queue q retains
Emitted(q, k) == q[CHOOSE i \in 1..Len(q) : q[i].data.seq = k]

\* the n most recently emitted events of the queue q, the most recent
\* first (the queue has lost none of the Len(q) events emitted)
MostRecentFirst(q, n) == [i \in 1..n |-> Emitted(q, Len(q) - i + 1)]

\* C35: _get_recent_events(count) returns the min(count, retained) most
\* recently emitted events, the most recent first, however many events the
\* queue retains (more than count included).
C35_RecentEventsAreMostRecent ==
  [][ RecentEventsRead
      => last_call'.ret =
           MostRecentFirst(event_queue,
                           Min(last_call'.count, Len(event_queue))) ]_vars

\* C36: reading the recent events is a pure query: after
\* _get_recent_events(count) the queue holds the same events in the same
\* order, for every queue length and every count.
C36_RecentEventsReadIsPure ==
  [][ RecentEventsRead => event_queue' = event_queue ]_vars
\* a thread has been started and has not ended
LiveThread == \E w \in WorkerIds : is_alive(w)

\* C32: when every hook call returns and every pause is followed by a
\* resume or a stop, every accepted start leads to a state in which its
\* thread has ended and the orchestrator is Idle or Error; and the
\* orchestrator does not stay Running, Paused or Stopping for ever with no
\* live thread, however pause and resume interleave with the last state
\* write of the thread.
C32_RunsEndIdleOrError ==
  /\ \A w \in WorkerIds :
       (workers[w].pc = "spawned")
         ~> (workers[w].pc = "done" /\ state \in {IDLE, ERROR})
  /\ ~<>[](state \in {RUNNING, PAUSED, STOPPING} /\ ~LiveThread)
====
